---- MODULE Spec2Model ----
(***************************************************************************)
(* A model of the TCP segment codec of libtins (src/src/tcp.cpp): the      *)
(* fixed header, the option table with its two size counters, the parser,  *)
(* the serializer with its checksum, and the response-matching heuristic.  *)
(***************************************************************************)
EXTENDS Integers, Sequences, FiniteSets, TLC

\* tcp: the fixed header (_tcp); options, options_size, total_options_size:
\* the option table and its counters; inner: the inner PDU; obj: whether a
\* segment object exists ("none" before a parsing constructor has returned);
\* last: the last call made, its argument, what it returned or emitted and
\* the segment it was made on; hist: which constructor built the segment and
\* whether write_serialization has run on it; calls: the number of calls made
\* so far, where a specification bounds it
VARIABLES tcp, options, options_size, total_options_size, inner, obj, last,
          hist, calls

vars == <<tcp, options, options_size, total_options_size, inner, obj, last,
          hist, calls>>

(***************************************************************************)
(* Bounds of the model.                                                    *)
(***************************************************************************)
\* add_option is not called on a table that already holds this many records
MaxOpts == 2

(***************************************************************************)
(* Program constants.                                                      *)
(***************************************************************************)
TcpHdrSize == 20
DEFAULT_WINDOW == 32678
EOL == 0
NOP == 1
MSS == 2
WSCALE == 3
SACK_OK == 4
SACK == 5
TSOPT == 8
ALTCHK == 14

(***************************************************************************)
(* Fixed-width integers and bytes.                                         *)
(***************************************************************************)
U4(x) == x % 16
U8(x) == x % 256
U16(x) == x % 65536

\* Endian::host_to_be followed by a store: the bytes in memory, most
\* significant first
BE16(x) == <<(x \div 256) % 256, x % 256>>
\* a 32-bit value is held as its two 16-bit halves, <<high, low>>
BE32(x) == BE16(x[1]) \o BE16(x[2])
FromBE16(b, i) == b[i] * 256 + b[i + 1]
FromBE32(b, i) == <<FromBE16(b, i), FromBE16(b, i + 2)>>

Repeat(x, n) == [i \in 1..n |-> x]

Min(a, b) == IF a < b THEN a ELSE b

(***************************************************************************)
(* Option records (PDUOption): kind, payload bytes, and the length field,  *)
(* which equals the payload size unless the caller spoofed it.             *)
(***************************************************************************)
option(kind, data) == [option |-> kind, data |-> data, length_field |-> Len(data)]
spoofed_option(kind, len, data) == [option |-> kind, data |-> data, length_field |-> len]
data_size(opt) == Len(opt.data)

(***************************************************************************)
(* The segment as one value; the operations below map segments to segments *)
(***************************************************************************)
Seg == [tcp |-> tcp, options |-> options, options_size |-> options_size,
        total_options_size |-> total_options_size, inner |-> inner]

NoInner == [present |-> FALSE, payload |-> <<>>]
RawPDU(bytes) == [present |-> TRUE, payload |-> bytes]

ZeroHdr == [sport |-> 0, dport |-> 0, seq |-> <<0, 0>>, ack_seq |-> <<0, 0>>, res1 |-> 0,
            doff |-> 0, flags_8 |-> 0, window |-> 0, check |-> 0, urg_ptr |-> 0]

\* TCP::TCP(uint16_t dport, uint16_t sport)
FreshTCP(dport, sport) ==
    [tcp |-> [ZeroHdr EXCEPT !.dport = dport, !.sport = sport,
                             !.doff = U4(TcpHdrSize \div 4),
                             !.window = DEFAULT_WINDOW],
     options |-> <<>>, options_size |-> 0, total_options_size |-> 0,
     inner |-> NoInner]

\* TCP::header_size
header_size(s) == TcpHdrSize + s.total_options_size

(***************************************************************************)
(* Option table.                                                           *)
(***************************************************************************)
\* TCP::update_options_size
update_options_size(s) ==
    LET padding == s.options_size % 4
    IN  [s EXCEPT !.total_options_size =
            IF padding # 0 THEN U16(s.options_size - padding + 4)
                           ELSE s.options_size]

\* the bytes internal_add_option and remove_option count for a record
counted_size(opt) ==
    IF data_size(opt) # 0 \/ opt.option = SACK_OK
    THEN 1 + 1 + U16(data_size(opt))
    ELSE 1

\* internal_add_option, had it also stored the data offset
internal_add_option_storing_doff(s, opt) ==
    LET u == update_options_size(
                [s EXCEPT !.options_size = U16(@ + counted_size(opt))])
    IN  [u EXCEPT !.tcp.doff = U4((TcpHdrSize + u.total_options_size) \div 4)]

\* TCP::internal_add_option
internal_add_option(s, opt) ==
    update_options_size(
        [s EXCEPT !.options_size = U16(@ + counted_size(opt))])

\* TCP::add_option
add_option(s, opt) ==
    internal_add_option([s EXCEPT !.options = Append(@, opt)], opt)

\* search_option_iterator, had it found the last record of the kind
search_option_iterator_last(opts, type) ==
    IF \E i \in 1..Len(opts) : opts[i].option = type
    THEN CHOOSE i \in 1..Len(opts) :
            /\ opts[i].option = type
            /\ \A j \in (i + 1)..Len(opts) : opts[j].option # type
    ELSE Len(opts) + 1

\* TCP::search_option_iterator: the index of the first record of the kind,
\* Len + 1 (end()) when there is none
search_option_iterator(opts, type) ==
    IF \E i \in 1..Len(opts) : opts[i].option = type
    THEN CHOOSE i \in 1..Len(opts) :
            /\ opts[i].option = type
            /\ \A j \in 1..(i - 1) : opts[j].option # type
    ELSE Len(opts) + 1

\* options_type::erase
erase(opts, i) == SubSeq(opts, 1, i - 1) \o SubSeq(opts, i + 1, Len(opts))

\* remove_option, had it subtracted the kind byte only
remove_option_kind_byte_only(s, type) ==
    LET iter == search_option_iterator(s.options, type)
    IN  IF iter = Len(s.options) + 1
        THEN [seg |-> s, ret |-> FALSE]
        ELSE [seg |-> update_options_size(
                        [s EXCEPT !.options_size = U16(@ + 65536 - 1),
                                  !.options = erase(@, iter)]),
              ret |-> TRUE]

\* TCP::remove_option: the segment afterwards and the value returned
remove_option(s, type) ==
    LET iter == search_option_iterator(s.options, type)
    IN  IF iter = Len(s.options) + 1
        THEN [seg |-> s, ret |-> FALSE]
        ELSE [seg |-> update_options_size(
                        [s EXCEPT !.options_size =
                                      U16(@ + 65536 - counted_size(s.options[iter])),
                                  !.options = erase(@, iter)]),
              ret |-> TRUE]

(***************************************************************************)
(* Serializer.                                                             *)
(***************************************************************************)
\* memcpy(tcp_start, &_tcp, sizeof(tcphdr)): the 20 header bytes
EncodeHeader(h) ==
    BE16(h.sport) \o BE16(h.dport) \o BE32(h.seq) \o BE32(h.ack_seq)
    \o <<h.doff * 16 + h.res1, h.flags_8>>
    \o BE16(h.window) \o BE16(h.check) \o BE16(h.urg_ptr)

\* stream.read(_tcp): the header held by the first 20 bytes
DecodeHeader(b) ==
    [sport |-> FromBE16(b, 1), dport |-> FromBE16(b, 3),
     seq |-> FromBE32(b, 5), ack_seq |-> FromBE32(b, 9),
     res1 |-> b[13] % 16, doff |-> b[13] \div 16, flags_8 |-> b[14],
     window |-> FromBE16(b, 15), check |-> FromBE16(b, 17),
     urg_ptr |-> FromBE16(b, 19)]

\* TCP::write_option: the bytes written for one record
write_option(opt) ==
    IF opt.option = 0 \/ opt.option = 1
    THEN <<opt.option>>
    ELSE <<opt.option,
           U8(U8(opt.length_field)
              + (IF opt.length_field = data_size(opt) THEN 2 ELSE 0))>>
         \o opt.data

RECURSIVE write_options(_)
\* the loop over _options in write_serialization
write_options(opts) ==
    IF opts = <<>> THEN <<>>
    ELSE write_option(Head(opts)) \o write_options(Tail(opts))

\* the padding loop of write_serialization: No-Op bytes written after the
\* options
padding_bytes(s) ==
    IF s.options_size < s.total_options_size
    THEN Repeat(1, s.total_options_size - s.options_size)
    ELSE <<>>

\* the data offset write_serialization stores in the 4-bit field
computed_doff(s) == U4((TcpHdrSize + s.total_options_size) \div 4)

\* PDU::serialize: the buffer write_serialization is handed, size() bytes,
\* zeroed, the inner PDU already serialized at header_size()
serialize_buffer(s) ==
    Repeat(0, header_size(s)) \o s.inner.payload

\* buf with bytes w written from offset off on; a write past the end of the
\* buffer lands outside it
Overwrite(buf, off, w) ==
    [i \in 1..Len(buf) |->
        IF i > off /\ i <= off + Len(w) THEN w[i - off] ELSE buf[i]]

NoParent == [kind |-> "none", src |-> <<>>, dst |-> <<>>]
PROTO_TCP == 6

RECURSIVE SumWords(_)
\* the sum of the big-endian 16-bit words of an even number of bytes
SumWords(b) ==
    IF Len(b) < 2 THEN 0
    ELSE b[1] * 256 + b[2] + SumWords(SubSeq(b, 3, Len(b)))

\* Utils::do_checksum: the 32-bit sum of the 16-bit words, an odd last byte
\* taken as the high byte of a word (the sum of fewer than 32768 words does
\* not wrap)
do_checksum(b) ==
    IF Len(b) % 2 = 1
    THEN SumWords(SubSeq(b, 1, Len(b) - 1)) + b[Len(b)] * 256
    ELSE SumWords(b)

\* Utils::pseudoheader_checksum (IPv4 and IPv6 addresses as bytes)
pseudoheader_checksum(src, dst, len, flag) ==
    SumWords(src) + SumWords(dst) + flag + len

RECURSIVE FoldCarries(_)
\* while (check >> 16) check = (check & 0xffff) + (check >> 16);
FoldCarries(check) ==
    IF check \div 65536 = 0 THEN check
    ELSE FoldCarries((check % 65536) + (check \div 65536))

\* the value write_serialization stores with checksum(~check)
segment_checksum(buffer, size, parent) ==
    LET check == pseudoheader_checksum(parent.src, parent.dst, size, PROTO_TCP)
                 + do_checksum(buffer)
    IN  65535 - FoldCarries(check)   \* the low 16 bits of ~check

\* write_serialization, had it left the stored checksum in place
cleared_checksum_kept(h) == h

\* checksum(0) at the start of write_serialization
cleared_checksum(h) == [h EXCEPT !.check = 0]

\* TCP::write_serialization on the buffer of PDU::serialize: the segment
\* afterwards, the total_sz bytes of the buffer, and whether a write went
\* past the end of the buffer
write_serialization(s, parent) ==
    LET h0 == [cleared_checksum(s.tcp) EXCEPT !.doff = computed_doff(s)]
        written == write_options(s.options) \o padding_bytes(s)
        buf0 == serialize_buffer(s)
        buf1 == Overwrite(Overwrite(buf0, TcpHdrSize, written), 0, EncodeHeader(h0))
        sum == segment_checksum(buf1, header_size(s) + Len(s.inner.payload), parent)
        h1 == IF parent.kind \in {"ip", "ipv6"} THEN [h0 EXCEPT !.check = sum] ELSE h0
        buf2 == IF parent.kind \in {"ip", "ipv6"}
                THEN Overwrite(buf1, 16, BE16(h1.check)) ELSE buf1
    IN  [seg |-> [s EXCEPT !.tcp = h1], bytes |-> buf2,
         oob |-> TcpHdrSize + Len(written) > Len(buf0)]

(***************************************************************************)
(* Parser.                                                                 *)
(***************************************************************************)
\* malformed_packet thrown: no segment is built
Malformed == [ok |-> FALSE]

\* the check after stream.read(_tcp)
bad_data_offset(doff, total_sz) ==
    doff * 4 > total_sz \/ doff * 4 < TcpHdrSize

\* the check on an option's length byte, had it let a length of 1 pass
bad_option_length_below_one(len) == len < 1

\* the check on an option's length byte
bad_option_length(len) == len < 2

\* the check that the payload ends before header_end (data_start and
\* header_end as offsets into the buffer)
option_overruns(data_start, len, header_end) == data_start + len > header_end

RECURSIVE parse_options(_, _, _, _)
\* the option loop of TCP::TCP(buffer, total_sz); pos is the offset of the
\* stream pointer
parse_options(buf, pos, header_end, s) ==
    IF pos >= header_end
    THEN [ok |-> TRUE,
          seg |-> IF pos < Len(buf)
                  THEN [s EXCEPT !.inner = RawPDU(SubSeq(buf, pos + 1, Len(buf)))]
                  ELSE s]
    ELSE LET option_type == buf[pos + 1]
         IN  IF option_type <= NOP
             THEN parse_options(buf, pos + 1, header_end,
                                add_option(s, option(option_type, <<>>)))
             ELSE IF pos + 1 >= Len(buf)
             THEN Malformed   \* stream.read<uint8_t>() finds no byte left
             ELSE LET len == buf[pos + 2]
                      data_start == pos + 2
                  IN  IF bad_option_length(len) THEN Malformed
                      ELSE IF option_overruns(data_start, len - 2, header_end)
                      THEN Malformed
                      ELSE parse_options(buf, data_start + (len - 2), header_end,
                              add_option(s, option(option_type,
                                  SubSeq(buf, data_start + 1, data_start + len - 2))))

\* TCP::TCP(const uint8_t *buffer, uint32_t total_sz), the buffer as its
\* total_sz bytes: the segment built, or ok = FALSE for malformed_packet
Parse(buf) ==
    IF Len(buf) < TcpHdrSize THEN Malformed
    ELSE LET h == DecodeHeader(buf)
         IN  IF bad_data_offset(h.doff, Len(buf)) THEN Malformed
             ELSE parse_options(buf, TcpHdrSize, h.doff * 4,
                      [tcp |-> h, options |-> <<>>, options_size |-> 0,
                       total_options_size |-> 0, inner |-> NoInner])

(***************************************************************************)
(* Typed option setters: the record each one hands to add_option.          *)
(***************************************************************************)
\* TCP::mss
mss_option(value) == option(MSS, BE16(value))
\* TCP::winscale
winscale_option(value) == option(WSCALE, <<value>>)
\* TCP::sack_permitted
sack_permitted_option == option(SACK_OK, <<>>)

RECURSIVE edges_bytes(_)
\* the loop of TCP::sack: each edge stored big-endian
edges_bytes(edges) ==
    IF edges = <<>> THEN <<>>
    ELSE BE32(Head(edges)) \o edges_bytes(Tail(edges))

\* TCP::sack: option(SACK, (uint8_t)(sizeof(uint32_t) * edges.size()), value)
sack_option(edges) ==
    LET len == U8(4 * Len(edges))
    IN  spoofed_option(SACK, len, SubSeq(edges_bytes(edges), 1, len))
\* TCP::timestamp
timestamp_option(value, reply) == option(TSOPT, BE32(value) \o BE32(reply))
\* TCP::altchecksum
altchecksum_option(value) == option(ALTCHK, <<value>>)

(***************************************************************************)
(* Inputs of the calls.                                                    *)
(***************************************************************************)
\* a record of a kind the library has no name for
UnknownOption == option(30, <<1, 2>>)
\* records handed to add_option directly
AddOpts == {option(NOP, <<>>), UnknownOption}
MssValues == {1460}
WinscaleValues == {7}
\* the edge lists handed to sack: none, one block, five blocks
SackEdges == {<<>>, <<<<0, 100>>, <<0, 200>>>>, [i \in 1..10 |-> <<1, 100 * i>>]}
TimestampValues == {<<<<0, 1000>>, <<3, 2000>>>>}
AltchecksumValues == {1}
\* the kinds asked of remove_option
RemoveKinds == {EOL, NOP, MSS, WSCALE, SACK_OK, SACK, TSOPT, ALTCHK,
                UnknownOption.option}

\* a header as it arrives in a buffer, with the given data offset
WireHdr(doff) ==
    EncodeHeader([ZeroHdr EXCEPT !.sport = 80, !.dport = 1234, !.seq = <<1, 7>>,
                                 !.doff = doff, !.flags_8 = 18,
                                 !.window = DEFAULT_WINDOW, !.check = 4660])

\* buffers handed to the parsing constructor
CtorBuffers ==
    { WireHdr(6) \o <<MSS, 4, 5, 180>> \o <<9>>,
      WireHdr(6) \o <<SACK, 2, NOP, NOP>>,
      WireHdr(7) \o <<SACK, 2, SACK, 2, SACK, 2, EOL, EOL>> }

(***************************************************************************)
(* The calls as actions.                                                   *)
(***************************************************************************)
\* the call op(arg) made on the segment, leaving segment s, returning ret
\* and emitting out
NoOut == <<>>
NoUndo == <<>>
AddOps == {"add_option", "mss", "winscale", "sack_permitted", "sack",
           "timestamp", "altchecksum"}

\* what last holds after remove_option(type) besides the call itself: when
\* the call before it added a record of that kind, the two counters as they
\* were before that record was added
Undo(type) ==
    IF last.op \in AddOps /\ last.arg.option = type
    THEN <<last.pre.options_size, last.pre.total_options_size>>
    ELSE NoUndo

CallU(op, arg, s, ret, out, undo) ==
    /\ tcp' = s.tcp
    /\ options' = s.options
    /\ options_size' = s.options_size
    /\ total_options_size' = s.total_options_size
    /\ inner' = s.inner
    /\ obj' = "live"
    /\ last' = [op |-> op, arg |-> arg, ret |-> ret, out |-> out, pre |-> Seg,
                undo |-> undo]
    /\ hist' = [ctor |-> IF op = "parse" THEN "parse" ELSE hist.ctor,
                serialized |-> hist.serialized \/ op = "write_serialization"]

Call(op, arg, s, ret, out) == CallU(op, arg, s, ret, out, NoUndo)

AddOption(opts) ==
    /\ Len(options) < MaxOpts
    /\ \E opt \in opts :
          Call("add_option", opt, add_option(Seg, opt), TRUE, NoOut)

SetMss ==
    /\ Len(options) < MaxOpts
    /\ \E v \in MssValues :
          Call("mss", mss_option(v), add_option(Seg, mss_option(v)), TRUE, NoOut)

SetWinscale ==
    /\ Len(options) < MaxOpts
    /\ \E v \in WinscaleValues :
          Call("winscale", winscale_option(v),
               add_option(Seg, winscale_option(v)), TRUE, NoOut)

SetSackPermitted ==
    /\ Len(options) < MaxOpts
    /\ Call("sack_permitted", sack_permitted_option,
            add_option(Seg, sack_permitted_option), TRUE, NoOut)

SetSack(edge_lists) ==
    /\ Len(options) < MaxOpts
    /\ \E e \in edge_lists :
          Call("sack", sack_option(e), add_option(Seg, sack_option(e)), TRUE, NoOut)

SetTimestamp ==
    /\ Len(options) < MaxOpts
    /\ \E v \in TimestampValues :
          Call("timestamp", timestamp_option(v[1], v[2]),
               add_option(Seg, timestamp_option(v[1], v[2])), TRUE, NoOut)

SetAltchecksum ==
    /\ Len(options) < MaxOpts
    /\ \E v \in AltchecksumValues :
          Call("altchecksum", altchecksum_option(v),
               add_option(Seg, altchecksum_option(v)), TRUE, NoOut)

RemoveOption(kinds) ==
    /\ \E type \in kinds :
          LET r == remove_option(Seg, type)
          IN  CallU("remove_option", type, r.seg, r.ret, NoOut, Undo(type))

\* write_serialization as PDU::serialize calls it
WriteSerialization(parents) ==
    \E parent \in parents :
        LET w == write_serialization(Seg, parent)
        IN  Call("write_serialization", parent, w.seg, TRUE,
                 [bytes |-> w.bytes, oob |-> w.oob])

\* the state a constructor leaves: op names the constructor, arg its argument
Constructed(op, arg, s) ==
    /\ tcp = s.tcp
    /\ options = s.options
    /\ options_size = s.options_size
    /\ total_options_size = s.total_options_size
    /\ inner = s.inner
    /\ obj = "live"
    /\ last = [op |-> op, arg |-> arg, ret |-> TRUE, out |-> NoOut, pre |-> s,
               undo |-> NoUndo]
    /\ hist = [ctor |-> op, serialized |-> FALSE]
    /\ calls = 0

\* TCP::TCP(dport, sport)
FreshCtor(dport, sport) ==
    Constructed("TCP", <<dport, sport>>, FreshTCP(dport, sport))

\* TCP::TCP(buffer, total_sz) on a buffer it accepts
ParseCtor(buf) ==
    /\ Parse(buf).ok
    /\ Constructed("parse", buf, Parse(buf).seg)

(***************************************************************************)
(* Spec: a segment, fresh or parsed, and the calls that change its option  *)
(* table, with serialization.                                              *)
(***************************************************************************)
Init ==
    \/ FreshCtor(80, 1234)
    \/ \E buf \in CtorBuffers : ParseCtor(buf)

Next ==
    \/ (AddOption(AddOpts) /\ UNCHANGED calls)
    \/ (SetMss /\ UNCHANGED calls)
    \/ (SetWinscale /\ UNCHANGED calls)
    \/ (SetSackPermitted /\ UNCHANGED calls)
    \/ (SetSack(SackEdges) /\ UNCHANGED calls)
    \/ (SetTimestamp /\ UNCHANGED calls)
    \/ (SetAltchecksum /\ UNCHANGED calls)
    \/ (RemoveOption(RemoveKinds) /\ UNCHANGED calls)
    \/ (WriteSerialization({NoParent}) /\ UNCHANGED calls)

Spec == Init /\ [][Next]_vars

(***************************************************************************)
(* Properties of the option table and of the data offset, under Spec.      *)
(***************************************************************************)
\* the bytes the wire format gives a record: one for End-of-Options and
\* No-Op, kind and length bytes plus the payload for every other kind
Footprint(opt) == IF opt.option \in {EOL, NOP} THEN 1 ELSE 2 + Len(opt.data)

RECURSIVE TableBytes(_)
TableBytes(opts) ==
    IF opts = <<>> THEN 0 ELSE Footprint(Head(opts)) + TableBytes(Tail(opts))

\* C3: after construction and after every add_option and remove_option,
\* options_size is the sum over the records in the table of the bytes the
\* serializer emits for each: 1 for kinds 0 and 1, 2 + payload length for
\* every other kind, an empty payload included.
C3_OptionsSizeIsSerializedSize == options_size = TableBytes(options)

FirstOfKind(opts, type) ==
    opts[CHOOSE i \in 1..Len(opts) :
            /\ opts[i].option = type
            /\ \A j \in 1..(i - 1) : opts[j].option # type]

CountersRestored ==
    /\ options_size = last.undo[1]
    /\ total_options_size = last.undo[2]

\* C6 as stated: from any reachable table, one that already holds records
\* of the same kind included, add_option(record) immediately followed by
\* remove_option(record's kind) restores options_size and
\* total_options_size.
C6_AddRemoveRestores ==
    (last.op = "remove_option" /\ last.undo # NoUndo) => CountersRestored

\* C6 as amended: add_option(record) immediately followed by
\* remove_option(record's kind) restores both counters whenever the first
\* record of that kind in the table has the payload length of the added
\* record, as it has when the table held no record of that kind.
C6_AddRemoveRestoresSameLength ==
    (/\ last.op = "remove_option"
     /\ last.undo # NoUndo
     /\ Len(FirstOfKind(last.pre.options, last.arg).data)
            = Len(last.pre.options[Len(last.pre.options)].data))
    => CountersRestored

\* remove_option has run right after an add, on a table that held an older
\* record of that kind with the same payload length
C6_Witness ==
    /\ last.op = "remove_option"
    /\ last.undo # NoUndo
    /\ \E i \in 1..(Len(last.pre.options) - 1) :
          /\ last.pre.options[i].option = last.arg
          /\ Len(last.pre.options[i].data)
                = Len(last.pre.options[Len(last.pre.options)].data)
          /\ Len(last.pre.options[i].data) > 0

\* C7: remove_option(kind) returns true exactly when the table holds a
\* record of that kind, and then deletes the first such record only, the
\* other records keeping their order; when there is none it returns false
\* and leaves the option sequence and both counters unchanged.
C7_RemoveFirstOnly ==
    last.op = "remove_option" =>
        LET pre == last.pre.options
            held == \E i \in 1..Len(pre) : pre[i].option = last.arg
        IN  /\ last.ret = held
            /\ held =>
                 \E i \in 1..Len(pre) :
                    /\ pre[i].option = last.arg
                    /\ \A j \in 1..(i - 1) : pre[j].option # last.arg
                    /\ Len(options) = Len(pre) - 1
                    /\ \A j \in 1..Len(options) :
                          options[j] = IF j < i THEN pre[j] ELSE pre[j + 1]
            /\ ~held =>
                 /\ options = pre
                 /\ options_size = last.pre.options_size
                 /\ total_options_size = last.pre.total_options_size
            /\ tcp = last.pre.tcp
            /\ inner = last.pre.inner

\* remove_option has deleted a record from a table holding two different
\* records of that kind
C7_Witness ==
    /\ last.op = "remove_option"
    /\ last.ret
    /\ \E i, j \in 1..Len(last.pre.options) :
          /\ i < j
          /\ last.pre.options[i].option = last.arg
          /\ last.pre.options[j].option = last.arg
          /\ last.pre.options[i] # last.pre.options[j]

\* C10: after write_serialization the data_offset field, in the segment and
\* in the emitted header, is (20 + total_options_size) / 4, lies in 5..15
\* and satisfies data_offset * 4 = header_size().
C10_DataOffsetAfterSerialization ==
    last.op = "write_serialization" =>
        /\ tcp.doff = (TcpHdrSize + total_options_size) \div 4
        /\ tcp.doff \in 5..15
        /\ tcp.doff * 4 = header_size(Seg)
        /\ DecodeHeader(last.out.bytes).doff = tcp.doff

(***************************************************************************)
(* SpecParse: the parsing constructor on arbitrary buffers.                *)
(***************************************************************************)
\* the longest run of bytes after the fixed header in the buffers parsed
MaxTail == 5
\* the values those bytes take: the two special kinds, kinds with a length
\* byte, and lengths below, at and above what fits
TailBytes == 0..5
Tails == UNION {[1..n -> TailBytes] : n \in 0..MaxTail}
\* the data offsets in the headers parsed
WireDoffs == {4, 5, 6, 15}

ParseInputs ==
    {SubSeq(WireHdr(5), 1, n) : n \in 0..(TcpHdrSize - 1)}
    \cup {WireHdr(d) \o tl : d \in WireDoffs, tl \in Tails}

\* the members before the constructor body has run
Unbuilt == [tcp |-> ZeroHdr, options |-> <<>>, options_size |-> 0,
            total_options_size |-> 0, inner |-> NoInner]

NoSegment ==
    /\ obj = "none"
    /\ Seg = Unbuilt

InitParse ==
    /\ tcp = Unbuilt.tcp
    /\ options = Unbuilt.options
    /\ options_size = Unbuilt.options_size
    /\ total_options_size = Unbuilt.total_options_size
    /\ inner = Unbuilt.inner
    /\ obj = "none"
    /\ last = [op |-> "none", arg |-> <<>>, ret |-> TRUE, out |-> NoOut,
               pre |-> Unbuilt, undo |-> NoUndo]
    /\ hist = [ctor |-> "none", serialized |-> FALSE]
    /\ calls = 0

\* TCP::TCP(buffer, total_sz): a segment, or malformed_packet and no segment
TryParse ==
    /\ obj = "none"
    /\ last.op = "none"
    /\ \E buf \in ParseInputs :
          LET p == Parse(buf)
          IN  IF p.ok
              THEN Call("parse", buf, p.seg, "ok", NoOut)
              ELSE /\ last' = [last EXCEPT !.op = "parse", !.arg = buf,
                                           !.ret = "malformed_packet"]
                   /\ UNCHANGED <<tcp, options, options_size,
                                  total_options_size, inner, obj, hist>>

NextParse == TryParse /\ UNCHANGED calls

SpecParse == InitParse /\ [][NextParse]_vars

RECURSIVE ScanFails(_, _, _)
\* some option met scanning from offset pos has a length byte below 2, or a
\* length byte or a payload lying past header_end
ScanFails(buf, pos, header_end) ==
    IF pos >= header_end THEN FALSE
    ELSE IF buf[pos + 1] <= 1 THEN ScanFails(buf, pos + 1, header_end)
    ELSE \/ pos + 1 >= header_end
         \/ buf[pos + 2] < 2
         \/ pos + buf[pos + 2] > header_end
         \/ ScanFails(buf, pos + buf[pos + 2], header_end)

\* the buffers C2 says must be rejected
MustBeRejected(buf) ==
    \/ Len(buf) < 20
    \/ (buf[13] \div 16) * 4 > Len(buf)
    \/ (buf[13] \div 16) * 4 < 20
    \/ ScanFails(buf, 20, (buf[13] \div 16) * 4)

\* C2: parsing fails with malformed_packet and yields no segment whenever
\* the length is below 20, data_offset * 4 exceeds the length or is below
\* 20, a scanned option of kind > 1 has a length byte below 2, or a scanned
\* option's length byte or payload lies past data_offset * 4.
C2_MalformedRejected ==
    (last.op = "parse" /\ MustBeRejected(last.arg)) =>
        /\ last.ret = "malformed_packet"
        /\ NoSegment

\* a buffer rejected for the length byte of its second option
C2_Witness ==
    /\ last.op = "parse"
    /\ last.ret = "malformed_packet"
    /\ Len(last.arg) = 24
    /\ last.arg[13] \div 16 = 6
    /\ last.arg[21] > 1
    /\ last.arg[22] = 2
    /\ last.arg[23] > 1
    /\ last.arg[24] < 2

(***************************************************************************)
(* Flags: the eight named bits of flags_8 and the 12-bit aggregate.        *)
(***************************************************************************)
Bit(x, i) == (x \div 2^i) % 2
WithBit(x, i, b) == x - Bit(x, i) * 2^i + b * 2^i

\* the bit of flags_8 each bit-field of tcphdr::flags occupies
FlagNames == <<"FIN", "SYN", "RST", "PSH", "ACK", "URG", "ECE", "CWR">>
FlagBit(f) == (CHOOSE i \in 1..8 : FlagNames[i] = f) - 1
NamedFlags == {FlagNames[i] : i \in 1..8}
\* the identifiers handed to get_flag and set_flag: the eight named flags
\* and a value of the enumeration type that names none
FlagIds == NamedFlags \cup {"OTHER"}

\* TCP::get_flag
get_flag(h, tcp_flag) ==
    CASE tcp_flag = "FIN" -> Bit(h.flags_8, FlagBit("FIN"))
      [] tcp_flag = "SYN" -> Bit(h.flags_8, FlagBit("SYN"))
      [] tcp_flag = "RST" -> Bit(h.flags_8, FlagBit("RST"))
      [] tcp_flag = "PSH" -> Bit(h.flags_8, FlagBit("PSH"))
      [] tcp_flag = "ACK" -> Bit(h.flags_8, FlagBit("ACK"))
      [] tcp_flag = "URG" -> Bit(h.flags_8, FlagBit("URG"))
      [] tcp_flag = "ECE" -> Bit(h.flags_8, FlagBit("ECE"))
      [] tcp_flag = "CWR" -> Bit(h.flags_8, FlagBit("CWR"))
      [] OTHER -> 0

\* TCP::flags() const
flags(h) == (h.res1 * 256 + h.flags_8) % 4096

\* TCP::set_flag
set_flag(h, tcp_flag, value) ==
    CASE tcp_flag = "FIN" -> [h EXCEPT !.flags_8 = WithBit(@, FlagBit("FIN"), value)]
      [] tcp_flag = "SYN" -> [h EXCEPT !.flags_8 = WithBit(@, FlagBit("SYN"), value)]
      [] tcp_flag = "RST" -> [h EXCEPT !.flags_8 = WithBit(@, FlagBit("RST"), value)]
      [] tcp_flag = "PSH" -> [h EXCEPT !.flags_8 = WithBit(@, FlagBit("PSH"), value)]
      [] tcp_flag = "ACK" -> [h EXCEPT !.flags_8 = WithBit(@, FlagBit("ACK"), value)]
      [] tcp_flag = "URG" -> [h EXCEPT !.flags_8 = WithBit(@, FlagBit("URG"), value)]
      [] tcp_flag = "ECE" -> [h EXCEPT !.flags_8 = WithBit(@, FlagBit("ECE"), value)]
      [] tcp_flag = "CWR" -> [h EXCEPT !.flags_8 = WithBit(@, FlagBit("CWR"), value)]
      [] OTHER -> h

\* flags(value), had it kept three bits of the high nibble
set_flags_three_bits(h, value) ==
    [h EXCEPT !.res1 = (value \div 256) % 8, !.flags_8 = value % 256]

\* TCP::flags(small_uint<12> value)
set_flags(h, value) ==
    [h EXCEPT !.res1 = (value \div 256) % 16, !.flags_8 = value % 256]

(***************************************************************************)
(* SpecFlags: a fresh segment and the flag calls.                          *)
(***************************************************************************)
\* the aggregates stored into a segment whose flags were already set; a
\* fresh segment is given every 12-bit value
FlagProbes == {0, 2730, 4095}

SetFlags(values) ==
    /\ \E value \in values :
          Call("flags", value, [Seg EXCEPT !.tcp = set_flags(tcp, value)],
               TRUE, NoOut)

SetFlag(ids) ==
    /\ \E tcp_flag \in ids, value \in {0, 1} :
          Call("set_flag", <<tcp_flag, value>>,
               [Seg EXCEPT !.tcp = set_flag(tcp, tcp_flag, value)], TRUE, NoOut)

GetFlag ==
    /\ \E tcp_flag \in FlagIds :
          Call("get_flag", tcp_flag, Seg, get_flag(tcp, tcp_flag), NoOut)

GetFlags ==
    /\ Call("flags()", <<>>, Seg, flags(tcp), NoOut)

InitFlags == FreshCtor(80, 1234)

NextFlags ==
    \/ (SetFlags(IF last.op = "TCP" THEN 0..4095 ELSE FlagProbes)
            /\ UNCHANGED calls)
    \/ (SetFlag(FlagIds) /\ UNCHANGED calls)
    \/ (GetFlag /\ UNCHANGED calls)
    \/ (GetFlags /\ UNCHANGED calls)

SpecFlags == InitFlags /\ [][NextFlags]_vars

\* C8: flags(v) followed by flags() returns v and get_flag of each named
\* flag returns the matching bit of v's low byte (FIN 0, SYN 1, RST 2,
\* PSH 3, ACK 4, URG 5, ECE 6, CWR 7); set_flag(f, b) for a named flag
\* changes exactly that bit of the aggregate and nothing else of the
\* segment; get_flag of an unrecognized identifier returns 0.
C8_FlagsAggregate ==
    /\ last.op = "flags" =>
          /\ flags(tcp) = last.arg
          /\ get_flag(tcp, "FIN") = (last.arg \div 1) % 2
          /\ get_flag(tcp, "SYN") = (last.arg \div 2) % 2
          /\ get_flag(tcp, "RST") = (last.arg \div 4) % 2
          /\ get_flag(tcp, "PSH") = (last.arg \div 8) % 2
          /\ get_flag(tcp, "ACK") = (last.arg \div 16) % 2
          /\ get_flag(tcp, "URG") = (last.arg \div 32) % 2
          /\ get_flag(tcp, "ECE") = (last.arg \div 64) % 2
          /\ get_flag(tcp, "CWR") = (last.arg \div 128) % 2
          /\ [tcp EXCEPT !.res1 = 0, !.flags_8 = 0]
                = [last.pre.tcp EXCEPT !.res1 = 0, !.flags_8 = 0]
    /\ (last.op = "set_flag" /\ last.arg[1] \in NamedFlags) =>
          LET i == CHOOSE k \in 0..7 : FlagNames[k + 1] = last.arg[1]
              before == flags(last.pre.tcp)
          IN  /\ flags(tcp) = before - ((before \div 2^i) % 2) * 2^i
                                     + last.arg[2] * 2^i
              /\ [tcp EXCEPT !.res1 = 0, !.flags_8 = 0]
                    = [last.pre.tcp EXCEPT !.res1 = 0, !.flags_8 = 0]
              /\ [Seg EXCEPT !.tcp = 0] = [last.pre EXCEPT !.tcp = 0]
    /\ (last.op = "get_flag" /\ last.arg \notin NamedFlags) => last.ret = 0
    /\ (last.op = "get_flag" /\ last.arg \in NamedFlags) =>
          LET i == CHOOSE k \in 0..7 : FlagNames[k + 1] = last.arg
          IN  last.ret = (flags(tcp) \div 2^i) % 2
    /\ last.op = "flags()" => last.ret = tcp.res1 * 256 + tcp.flags_8

\* set_flag has cleared a named flag of a segment whose aggregate had bits
\* of the high nibble set
C8_Witness ==
    /\ last.op = "set_flag"
    /\ last.arg = <<"ACK", 0>>
    /\ flags(last.pre.tcp) = 4095
    /\ flags(tcp) = 4079

(***************************************************************************)
(* Response matching.                                                      *)
(***************************************************************************)
\* std::min<uint32_t>(total_sz, tcp_ptr->doff * sizeof(uint32_t)), had the
\* header length been taken unclamped
delegated_offset_unclamped(total_sz, doff) == doff * 4

\* std::min<uint32_t>(total_sz, tcp_ptr->doff * sizeof(uint32_t))
delegated_offset(total_sz, doff) == Min(total_sz, doff * 4)

NotDelegated == [delegated |-> FALSE, offset |-> 0, length |-> 0]

\* TCP::matches_response on the total_sz bytes ptr; inner_reply is what the
\* inner PDU's matches_response answers when it is asked
matches_response(s, ptr, inner_reply) ==
    IF Len(ptr) < TcpHdrSize
    THEN [ret |-> FALSE, out |-> NotDelegated]
    ELSE LET tcp_ptr == DecodeHeader(ptr)
         IN  IF tcp_ptr.sport = s.tcp.dport /\ tcp_ptr.dport = s.tcp.sport
             THEN LET sz == delegated_offset(Len(ptr), tcp_ptr.doff)
                  IN  IF s.inner.present
                      THEN [ret |-> inner_reply,
                            out |-> [delegated |-> TRUE, offset |-> sz,
                                     length |-> Len(ptr) - sz]]
                      ELSE [ret |-> TRUE, out |-> NotDelegated]
             ELSE [ret |-> FALSE, out |-> NotDelegated]

(***************************************************************************)
(* SpecMatch: segments with and without an inner PDU, asked about          *)
(* candidate buffers.                                                      *)
(***************************************************************************)
Ports == {80, 1234}
\* the most bytes a candidate holds after its fixed header
MaxCandTail == 5
CandDoffs == {0, 5, 6, 15}

CandHdr(sport, dport, doff) ==
    EncodeHeader([ZeroHdr EXCEPT !.sport = sport, !.dport = dport,
                                 !.doff = doff, !.flags_8 = 18])

Candidates ==
    {SubSeq(CandHdr(80, 1234, 5), 1, n) : n \in 0..(TcpHdrSize - 1)}
    \cup {CandHdr(sp, dp, d) \o Repeat(9, k) :
             sp \in Ports, dp \in Ports, d \in CandDoffs, k \in 0..MaxCandTail}

MatchesResponse ==
    /\ \E ptr \in Candidates, inner_reply \in BOOLEAN :
          LET m == matches_response(Seg, ptr, inner_reply)
          IN  Call("matches_response", ptr, Seg, m.ret,
                   m.out @@ [reply |-> inner_reply])

InitMatch ==
    \/ \E dport \in Ports, sport \in Ports : FreshCtor(dport, sport)
    \/ \E buf \in {WireHdr(5) \o <<9, 9>>,
                   WireHdr(6) \o <<MSS, 4, 5, 180>> \o <<9>>} : ParseCtor(buf)

NextMatch == MatchesResponse /\ UNCHANGED calls

SpecMatch == InitMatch /\ [][NextMatch]_vars

\* C9: matches_response(candidate, n) is false when n < 20 or the
\* candidate's (source, destination) ports are not this segment's
\* (destination, source) ports; with the ports reversed it is true when the
\* segment has no inner PDU, and otherwise what the inner PDU answers for
\* the candidate bytes after min(n, candidate data_offset * 4): the
\* delegated offset never exceeds n and the delegated length is n minus it.
C9_MatchesResponse ==
    last.op = "matches_response" =>
        LET c == last.arg
            n == Len(c)
            reversed == /\ c[1] * 256 + c[2] = tcp.dport
                        /\ c[3] * 256 + c[4] = tcp.sport
        IN  IF n < 20 THEN last.ret = FALSE /\ ~last.out.delegated
            ELSE IF ~reversed THEN last.ret = FALSE /\ ~last.out.delegated
            ELSE IF ~inner.present THEN last.ret = TRUE /\ ~last.out.delegated
            ELSE /\ last.out.delegated
                 /\ last.ret = last.out.reply
                 /\ last.out.offset = Min(n, (c[13] \div 16) * 4)
                 /\ last.out.offset <= n
                 /\ last.out.length = n - last.out.offset
                 /\ last.out.length >= 0

\* a candidate with reversed ports whose data offset claims more bytes than
\* it holds, matched against a segment with an inner PDU
C9_Witness ==
    /\ last.op = "matches_response"
    /\ inner.present
    /\ last.out.delegated
    /\ (last.arg[13] \div 16) * 4 > Len(last.arg)
    /\ last.out.offset = Len(last.arg)
    /\ last.ret

(***************************************************************************)
(* Header setters.                                                         *)
(***************************************************************************)
\* TCP::dport
set_dport(h, new_dport) == [h EXCEPT !.dport = new_dport]
\* TCP::sport
set_sport(h, new_sport) == [h EXCEPT !.sport = new_sport]
\* TCP::seq
set_seq(h, new_seq) == [h EXCEPT !.seq = new_seq]
\* TCP::ack_seq
set_ack_seq(h, new_ack_seq) == [h EXCEPT !.ack_seq = new_ack_seq]
\* TCP::window
set_window(h, new_window) == [h EXCEPT !.window = new_window]
\* TCP::checksum
set_checksum(h, new_check) == [h EXCEPT !.check = new_check]
\* TCP::urg_ptr
set_urg_ptr(h, new_urg_ptr) == [h EXCEPT !.urg_ptr = new_urg_ptr]
\* TCP::data_offset
set_data_offset(h, new_doff) == [h EXCEPT !.doff = new_doff]

\* the setter named field, called with value
SetHeader(field, value) ==
    Call(field, value,
         [Seg EXCEPT !.tcp =
            CASE field = "dport" -> set_dport(tcp, value)
              [] field = "sport" -> set_sport(tcp, value)
              [] field = "seq" -> set_seq(tcp, value)
              [] field = "ack_seq" -> set_ack_seq(tcp, value)
              [] field = "window" -> set_window(tcp, value)
              [] field = "checksum" -> set_checksum(tcp, value)
              [] field = "urg_ptr" -> set_urg_ptr(tcp, value)
              [] field = "data_offset" -> set_data_offset(tcp, value)],
         TRUE, NoOut)

\* PDU::inner_pdu(new RawPDU(payload))
SetInner(payloads) ==
    \E payload \in payloads :
        Call("inner_pdu", payload, [Seg EXCEPT !.inner = RawPDU(payload)],
             TRUE, NoOut)

(***************************************************************************)
(* SpecWire: segments, fresh or parsed, changed by a bounded number of     *)
(* calls and serialized under each kind of parent.                         *)
(***************************************************************************)
\* the calls made on a segment besides write_serialization
MaxCalls == 2

HeaderValues ==
    {<<"dport", 443>>, <<"sport", 5000>>, <<"seq", <<1, 2>>>>,
     <<"ack_seq", <<65535, 65535>>>>, <<"window", 1024>>,
     <<"checksum", 48879>>, <<"urg_ptr", 7>>, <<"data_offset", 9>>}

\* records handed to add_option: a No-Op, a record of an unnamed kind, and
\* a record whose length field was given a value of its own
WireOpts == {option(NOP, <<>>), UnknownOption, spoofed_option(WSCALE, 9, <<7>>)}
WireEdges == {<<>>, <<<<0, 100>>, <<0, 200>>>>}
WireKinds == {NOP, SACK}
Payloads == {<<9>>, <<9, 8>>}

IPv4Parent == [kind |-> "ip", src |-> <<192, 168, 0, 1>>, dst |-> <<10, 0, 0, 2>>]
IPv6Parent == [kind |-> "ipv6",
               src |-> <<32, 1, 13, 184>> \o Repeat(0, 11) \o <<1>>,
               dst |-> <<32, 1, 13, 184>> \o Repeat(0, 11) \o <<2>>]
\* a parent that is neither an IP nor an IPv6 header
OtherParent == [kind |-> "other", src |-> <<>>, dst |-> <<>>]
Parents == {NoParent, IPv4Parent, IPv6Parent, OtherParent}

Counted == calls < MaxCalls /\ calls' = calls + 1

InitWire ==
    \/ FreshCtor(80, 1234)
    \/ \E buf \in CtorBuffers : ParseCtor(buf)

NextWire ==
    \/ (Counted /\ \E hv \in HeaderValues : SetHeader(hv[1], hv[2]))
    \/ (Counted /\ SetFlags({2730}))
    \/ (Counted /\ SetFlag({"SYN"}))
    \/ (Counted /\ AddOption(WireOpts))
    \/ (Counted /\ SetMss)
    \/ (Counted /\ SetSack(WireEdges))
    \/ (Counted /\ RemoveOption(WireKinds))
    \/ (Counted /\ SetInner(Payloads))
    \/ (WriteSerialization(Parents) /\ UNCHANGED calls)

SpecWire == InitWire /\ [][NextWire]_vars

\* the records a segment parses back to when the alignment padding of the
\* serializer is read as k further No-Op records
Padded(opts, k) == opts \o [i \in 1..k |-> option(NOP, <<>>)]

\* no record of the table carries a length field set apart from its payload
Unspoofed == \A i \in 1..Len(options) : options[i].length_field = data_size(options[i])

\* C1: a segment built by the fresh constructor and changed by header
\* setters, add_option and remove_option, with any trailing payload, parses
\* back from the bytes of write_serialization to the same header fields
\* (checksum excepted), the same option sequence and the same payload.  The
\* statement is taken in its most favourable reading: records with a length
\* field of their own are left out, and the No-Op bytes that pad the option
\* area may come back as trailing No-Op records.
C1_RoundTrip ==
    (last.op = "write_serialization" /\ hist.ctor = "TCP" /\ Unspoofed) =>
        LET back == Parse(last.out.bytes)
        IN  /\ ~last.out.oob
            /\ back.ok
            /\ [back.seg.tcp EXCEPT !.check = 0] = [tcp EXCEPT !.check = 0]
            /\ \E k \in 0..3 : back.seg.options = Padded(options, k)
            /\ back.seg.inner = inner

\* the emitted bytes with the checksum field zero
ZeroedCheck(bytes) == Overwrite(bytes, 16, <<0, 0>>)

\* C5: write_serialization stores a checksum determined by the parent, in
\* the segment and in the emitted bytes: under an IP or IPv6 parent the
\* 16-bit complement of the carry-folded sum of the pseudo-header checksum
\* and the one's-complement sum of all emitted bytes taken with the checksum
\* field zero; under any other parent, or none, the emitted field is 0
\* whatever the checksum setter had stored.
C5_Checksum ==
    last.op = "write_serialization" =>
        LET bytes == last.out.bytes
            parent == last.arg
            total_sz == header_size(Seg) + Len(inner.payload)
            folded == FoldCarries(
                        pseudoheader_checksum(parent.src, parent.dst,
                                              total_sz, PROTO_TCP)
                        + do_checksum(ZeroedCheck(bytes)))
        IN  /\ Len(bytes) = total_sz
            /\ tcp.check = FromBE16(bytes, 16 + 1)
            /\ IF parent.kind \in {"ip", "ipv6"}
               THEN tcp.check = 65535 - folded
               ELSE tcp.check = 0

\* a segment whose checksum setter had stored a value, with an option and an
\* odd payload on board, serialized under an IPv4 parent
C5_Witness ==
    /\ last.op = "write_serialization"
    /\ last.arg = IPv4Parent
    /\ last.pre.tcp.check = 48879
    /\ options # <<>>
    /\ Len(inner.payload) = 1
    /\ tcp.check \notin {0, 48879}

====
